---------------------------- MODULE Spec2Model ----------------------------
(***************************************************************************)
(* The streaming chat relay of backend/app/main.py:                        *)
(* generate_streaming_response reads the upstream body of a chat           *)
(* completion call as byte chunks, reassembles lines across chunk          *)
(* boundaries, extracts choices[0].delta.content from every `data:` line   *)
(* and yields normalised server-sent events closed by `data: [DONE]`.      *)
(* chat, the handler of POST /chat, answers a streamed request with the    *)
(* events of this relay and any other request with one upstream call.      *)
(*                                                                         *)
(* Text is modelled character by character: a byte string is a sequence    *)
(* of one-byte tokens ("d", ":", "\n", ... and the two bytes "C3" "A9" of  *)
(* the UTF-8 encoding of U+00E9), a decoded string a sequence of           *)
(* characters (the same tokens, with "U+00E9" for the decoded pair).       *)
(***************************************************************************)
EXTENDS Integers, Sequences, FiniteSets, TLC

(***************************************************************************)
(* Bounds of the model.                                                    *)
(***************************************************************************)
\* the upstream body holds at most MaxLines lines
MaxLines == 2
\* the upstream body holds at most MaxBytes bytes
MaxBytes == 60

(***************************************************************************)
(* String constants of the program.                                        *)
(***************************************************************************)
\* data: {"choices":[{"delta":{"content":"x"}}]}
LineContentX ==
    <<"d", "a", "t", "a", ":", " ", "{", "\"", "c", "h", "o", "i", "c", "e",
    "s", "\"", ":", "[", "{", "\"", "d", "e", "l", "t", "a", "\"", ":", "{",
    "\"", "c", "o", "n", "t", "e", "n", "t", "\"", ":", "\"", "x", "\"", "}",
    "}", "]", "}">>

\* data: {"choices":[{"delta":{"content":"y"}}]}
LineContentY ==
    <<"d", "a", "t", "a", ":", " ", "{", "\"", "c", "h", "o", "i", "c", "e",
    "s", "\"", ":", "[", "{", "\"", "d", "e", "l", "t", "a", "\"", ":", "{",
    "\"", "c", "o", "n", "t", "e", "n", "t", "\"", ":", "\"", "y", "\"", "}",
    "}", "]", "}">>

\* data: {"choices":[{"delta":{"content":"\u00e9"}}]}
LineContentU ==
    <<"d", "a", "t", "a", ":", " ", "{", "\"", "c", "h", "o", "i", "c", "e",
    "s", "\"", ":", "[", "{", "\"", "d", "e", "l", "t", "a", "\"", ":", "{",
    "\"", "c", "o", "n", "t", "e", "n", "t", "\"", ":", "\"", "C3", "A9",
    "\"", "}", "}", "]", "}">>

\* data: [DONE]
LineDone ==
    <<"d", "a", "t", "a", ":", " ", "[", "D", "O", "N", "E", "]">>

\* data: [DONE] 
LineDoneSpace ==
    <<"d", "a", "t", "a", ":", " ", "[", "D", "O", "N", "E", "]", " ">>

\* data:[DONE]
LineDoneNoSpace ==
    <<"d", "a", "t", "a", ":", "[", "D", "O", "N", "E", "]">>

\* the empty line
LineBlank == <<>>

\* data: {no
LineMalformed ==
    <<"d", "a", "t", "a", ":", " ", "{", "n", "o">>

\* data: {"choices":[{"delta":{"content":""}}]}
LineContentEmpty ==
    <<"d", "a", "t", "a", ":", " ", "{", "\"", "c", "h", "o", "i", "c", "e",
    "s", "\"", ":", "[", "{", "\"", "d", "e", "l", "t", "a", "\"", ":", "{",
    "\"", "c", "o", "n", "t", "e", "n", "t", "\"", ":", "\"", "\"", "}", "}",
    "]", "}">>

\* data: {"choices":[{"delta":{"content":null}}]}
LineContentNull ==
    <<"d", "a", "t", "a", ":", " ", "{", "\"", "c", "h", "o", "i", "c", "e",
    "s", "\"", ":", "[", "{", "\"", "d", "e", "l", "t", "a", "\"", ":", "{",
    "\"", "c", "o", "n", "t", "e", "n", "t", "\"", ":", "n", "u", "l", "l",
    "}", "}", "]", "}">>

\* data: {"choices":[{"delta":{}}]}
LineContentAbsent ==
    <<"d", "a", "t", "a", ":", " ", "{", "\"", "c", "h", "o", "i", "c", "e",
    "s", "\"", ":", "[", "{", "\"", "d", "e", "l", "t", "a", "\"", ":", "{",
    "}", "}", "]", "}">>

\* data: {}
LineNoChoices ==
    <<"d", "a", "t", "a", ":", " ", "{", "}">>

\* data: {"choices":[]}
LineEmptyChoices ==
    <<"d", "a", "t", "a", ":", " ", "{", "\"", "c", "h", "o", "i", "c", "e",
    "s", "\"", ":", "[", "]", "}">>

\* data: {"choices":[{}]}
LineNoDelta ==
    <<"d", "a", "t", "a", ":", " ", "{", "\"", "c", "h", "o", "i", "c", "e",
    "s", "\"", ":", "[", "{", "}", "]", "}">>

\* data: {"choices":[{"delta":null}]}
LineNullDelta ==
    <<"d", "a", "t", "a", ":", " ", "{", "\"", "c", "h", "o", "i", "c", "e",
    "s", "\"", ":", "[", "{", "\"", "d", "e", "l", "t", "a", "\"", ":", "n",
    "u", "l", "l", "}", "]", "}">>

\* data: {"choices":[null]}
LineNullChoice ==
    <<"d", "a", "t", "a", ":", " ", "{", "\"", "c", "h", "o", "i", "c", "e",
    "s", "\"", ":", "[", "n", "u", "l", "l", "]", "}">>

\* data: [1]
LineNotObject ==
    <<"d", "a", "t", "a", ":", " ", "[", "1", "]">>

\* x[DONE]
LineTailDone ==
    <<"x", "[", "D", "O", "N", "E", "]">>

\* data:
DataPrefix ==
    <<"d", "a", "t", "a", ":">>

\* data: [DONE]
DoneLine ==
    <<"d", "a", "t", "a", ":", " ", "[", "D", "O", "N", "E", "]">>

\* [DONE]
DoneWord ==
    <<"[", "D", "O", "N", "E", "]">>

\* data: [DONE]\n\n
DoneEvent ==
    <<"d", "a", "t", "a", ":", " ", "[", "D", "O", "N", "E", "]", "\n",
    "\n">>

\* data: 
EventHead ==
    <<"d", "a", "t", "a", ":", " ">>

\* \n\n
EventTail ==
    <<"\n", "\n">>

\* choices
KeyChoices ==
    <<"c", "h", "o", "i", "c", "e", "s">>

\* delta
KeyDelta ==
    <<"d", "e", "l", "t", "a">>

\* content
KeyContent ==
    <<"c", "o", "n", "t", "e", "n", "t">>

(***************************************************************************)
(* Python string primitives used by the relay.                             *)
(***************************************************************************)
\* bytes.strip() and str.strip() remove these from both ends
Whitespace == {" ", "\n", "\r"}

IsSpace(c) == c \in Whitespace

\* s[i:] for a 1-based start index
DropFirst(s, n) == IF n >= Len(s) THEN <<>> ELSE SubSeq(s, n + 1, Len(s))

\* index of the first character at or after i that is not whitespace
RECURSIVE FirstInk(_, _)
FirstInk(s, i) ==
    IF i <= Len(s) /\ IsSpace(s[i]) THEN FirstInk(s, i + 1) ELSE i

\* index of the last character at or before i that is not whitespace
RECURSIVE LastInk(_, _)
LastInk(s, i) ==
    IF i >= 1 /\ IsSpace(s[i]) THEN LastInk(s, i - 1) ELSE i

\* str.strip() / bytes.strip()
Strip(s) == SubSeq(s, FirstInk(s, 1), LastInk(s, Len(s)))

\* str.startswith(p)
StartsWith(s, p) == Len(s) >= Len(p) /\ SubSeq(s, 1, Len(p)) = p

\* str.endswith(p)
EndsWith(s, p) ==
    Len(s) >= Len(p) /\ SubSeq(s, Len(s) - Len(p) + 1, Len(s)) = p

\* str.split("\n"): always at least one segment, the last one possibly empty
Newlines(s) == {i \in 1..Len(s) : s[i] = "\n"}

\* the k-th smallest element of the set of indices S
Nth(S, k) == CHOOSE i \in S : Cardinality({j \in S : j < i}) = k - 1

SplitLines(s) ==
    LET nl == Newlines(s)
        cut == [k \in 0..(Cardinality(nl) + 1) |->
                  IF k = 0 THEN 0
                  ELSE IF k = Cardinality(nl) + 1 THEN Len(s) + 1
                  ELSE Nth(nl, k)]
    IN  [k \in 1..(Cardinality(nl) + 1) |->
           SubSeq(s, cut[k - 1] + 1, cut[k] - 1)]

(***************************************************************************)
(* bytes.decode("utf-8").  The only multi-byte character of the model is   *)
(* U+00E9, encoded C3 A9; a lead byte without its continuation byte or a   *)
(* continuation byte without its lead byte raises UnicodeDecodeError.      *)
(***************************************************************************)
WellFormedUtf8(b) ==
    \A i \in 1..Len(b) :
        /\ b[i] = "C3" => (i < Len(b) /\ b[i + 1] = "A9")
        /\ b[i] = "A9" => (i > 1 /\ b[i - 1] = "C3")

IsLeadOrAscii(c) == c # "A9"

\* ok = FALSE stands for UnicodeDecodeError
Utf8Decode(b) ==
    IF WellFormedUtf8(b)
    THEN LET lead == SelectSeq(b, IsLeadOrAscii)
         IN  [ok |-> TRUE,
              str |-> [i \in 1..Len(lead) |->
                         IF lead[i] = "C3" THEN "U+00E9" ELSE lead[i]]]
    ELSE [ok |-> FALSE, str |-> <<>>]

(***************************************************************************)
(* json.loads on the characters of the model: objects, arrays, strings     *)
(* with the common escapes, non-negative integers, null, true, false and   *)
(* NaN.  A value is [t |-> type, v |-> payload]; an object's payload is    *)
(* the sequence of its <<key, value>> members in insertion order.          *)
(***************************************************************************)
JNull == [t |-> "null", v |-> <<>>]
JTrue == [t |-> "true", v |-> <<>>]
JFalse == [t |-> "false", v |-> <<>>]
JNaN == [t |-> "nan", v |-> <<>>]
JStr(cs) == [t |-> "str", v |-> cs]
JNum(ds) == [t |-> "num", v |-> ds]
JArr(vs) == [t |-> "arr", v |-> vs]
JObj(ms) == [t |-> "obj", v |-> ms]

Digits == {"0", "1", "2", "3", "4", "5", "6", "7", "8", "9"}

ParseFail == [ok |-> FALSE, val |-> JNull, next |-> 0]

ParseOk(val, next) == [ok |-> TRUE, val |-> val, next |-> next]

\* index of the first character at or after i that is not JSON whitespace
SkipWs(s, i) == FirstInk(s, i)

\* the character an escape letter stands for, <<>> if it is no escape
Unescape(c) ==
    IF c \in {"\"", "\\", "/"} THEN <<c>>
    ELSE IF c = "n" THEN <<"\n">>
    ELSE IF c = "r" THEN <<"\r">>
    ELSE <<>>

\* the body of a string from i to its closing quote; a control character,
\* an unknown escape or the end of the text is an error
RECURSIVE StringBody(_, _, _)
StringBody(s, i, acc) ==
    IF i > Len(s) THEN ParseFail
    ELSE IF s[i] = "\"" THEN ParseOk(JStr(acc), i + 1)
    ELSE IF s[i] \in {"\n", "\r"} THEN ParseFail
    ELSE IF s[i] = "\\"
         THEN IF i + 5 <= Len(s)
                 /\ SubSeq(s, i + 1, i + 5) = <<"u", "0", "0", "e", "9">>
              THEN StringBody(s, i + 6, Append(acc, "U+00E9"))
              ELSE IF i + 1 <= Len(s) /\ Unescape(s[i + 1]) # <<>>
                   THEN StringBody(s, i + 2, acc \o Unescape(s[i + 1]))
                   ELSE ParseFail
    ELSE StringBody(s, i + 1, Append(acc, s[i]))

ParseString(s, i) == StringBody(s, i + 1, <<>>)

RECURSIVE DigitsEnd(_, _)
DigitsEnd(s, i) ==
    IF i <= Len(s) /\ s[i] \in Digits THEN DigitsEnd(s, i + 1) ELSE i

ParseNumber(s, i) ==
    LET j == IF s[i] = "0" THEN i + 1 ELSE DigitsEnd(s, i)
    IN  ParseOk(JNum(SubSeq(s, i, j - 1)), j)

ParseLiteral(s, i, word, val) ==
    IF StartsWith(DropFirst(s, i - 1), word)
    THEN ParseOk(val, i + Len(word))
    ELSE ParseFail

\* dict[k] = v
DictPut(ms, k, val) ==
    IF \E n \in 1..Len(ms) : ms[n][1] = k
    THEN [n \in 1..Len(ms) |-> IF ms[n][1] = k THEN <<k, val>> ELSE ms[n]]
    ELSE Append(ms, <<k, val>>)

RECURSIVE ParseValue(_, _)
RECURSIVE ParseElements(_, _, _)
RECURSIVE ParseMembers(_, _, _)

\* the value that starts at i (whitespace already skipped)
ParseValue(s, i) ==
    IF i > Len(s) THEN ParseFail
    ELSE IF s[i] = "\"" THEN ParseString(s, i)
    ELSE IF s[i] \in Digits THEN ParseNumber(s, i)
    ELSE IF s[i] = "n" THEN ParseLiteral(s, i, <<"n", "u", "l", "l">>, JNull)
    ELSE IF s[i] = "t" THEN ParseLiteral(s, i, <<"t", "r", "u", "e">>, JTrue)
    ELSE IF s[i] = "f"
         THEN ParseLiteral(s, i, <<"f", "a", "l", "s", "e">>, JFalse)
    ELSE IF s[i] = "N" THEN ParseLiteral(s, i, <<"N", "a", "N">>, JNaN)
    ELSE IF s[i] = "["
         THEN LET j == SkipWs(s, i + 1)
              IN  IF j <= Len(s) /\ s[j] = "]" THEN ParseOk(JArr(<<>>), j + 1)
                  ELSE ParseElements(s, j, <<>>)
    ELSE IF s[i] = "{"
         THEN LET j == SkipWs(s, i + 1)
              IN  IF j <= Len(s) /\ s[j] = "}" THEN ParseOk(JObj(<<>>), j + 1)
                  ELSE ParseMembers(s, j, <<>>)
    ELSE ParseFail

\* the elements of an array from the value that starts at i
ParseElements(s, i, acc) ==
    LET r == ParseValue(s, i)
    IN  IF ~r.ok THEN ParseFail
        ELSE LET j == SkipWs(s, r.next)
             IN  IF j > Len(s) THEN ParseFail
                 ELSE IF s[j] = "]"
                      THEN ParseOk(JArr(Append(acc, r.val)), j + 1)
                 ELSE IF s[j] = ","
                      THEN ParseElements(s, SkipWs(s, j + 1),
                                         Append(acc, r.val))
                 ELSE ParseFail

\* the members of an object from the key that starts at i
ParseMembers(s, i, acc) ==
    IF i > Len(s) \/ s[i] # "\"" THEN ParseFail
    ELSE LET k == ParseString(s, i)
         IN  IF ~k.ok THEN ParseFail
             ELSE LET c == SkipWs(s, k.next)
                  IN  IF c > Len(s) \/ s[c] # ":" THEN ParseFail
                      ELSE LET r == ParseValue(s, SkipWs(s, c + 1))
                           IN  IF ~r.ok THEN ParseFail
                               ELSE LET j == SkipWs(s, r.next)
                                        ms == DictPut(acc, k.val.v, r.val)
                                    IN  IF j > Len(s) THEN ParseFail
                                        ELSE IF s[j] = "}"
                                             THEN ParseOk(JObj(ms), j + 1)
                                        ELSE IF s[j] = ","
                                             THEN ParseMembers(
                                                    s, SkipWs(s, j + 1), ms)
                                        ELSE ParseFail

\* json.loads(s): ok = FALSE stands for json.JSONDecodeError
JsonLoads(s) ==
    LET r == ParseValue(s, SkipWs(s, 1))
    IN  IF r.ok /\ SkipWs(s, r.next) = Len(s) + 1
        THEN [ok |-> TRUE, val |-> r.val]
        ELSE [ok |-> FALSE, val |-> JNull]

(***************************************************************************)
(* json.dumps with its defaults: ", " and ": " separators, non-ASCII       *)
(* characters escaped.                                                     *)
(***************************************************************************)
EscapeChar(c) ==
    IF c = "U+00E9" THEN <<"\\", "u", "0", "0", "e", "9">>
    ELSE IF c \in {"\"", "\\"} THEN <<"\\", c>>
    ELSE IF c = "\n" THEN <<"\\", "n">>
    ELSE IF c = "\r" THEN <<"\\", "r">>
    ELSE <<c>>

RECURSIVE EscapeStr(_)
EscapeStr(cs) ==
    IF cs = <<>> THEN <<>> ELSE EscapeChar(Head(cs)) \o EscapeStr(Tail(cs))

DumpsStr(cs) == <<"\"">> \o EscapeStr(cs) \o <<"\"">>

RECURSIVE JsonDumps(_)
RECURSIVE DumpsItems(_, _)
DumpsItems(vs, isObj) ==
    IF vs = <<>> THEN <<>>
    ELSE LET item == IF isObj
                     THEN DumpsStr(Head(vs)[1]) \o <<":", " ">>
                              \o JsonDumps(Head(vs)[2])
                     ELSE JsonDumps(Head(vs))
         IN  item \o (IF Len(vs) > 1 THEN <<",", " ">> ELSE <<>>)
                  \o DumpsItems(Tail(vs), isObj)

JsonDumps(val) ==
    IF val.t = "str" THEN DumpsStr(val.v)
    ELSE IF val.t = "num" THEN val.v
    ELSE IF val.t = "null" THEN <<"n", "u", "l", "l">>
    ELSE IF val.t = "true" THEN <<"t", "r", "u", "e">>
    ELSE IF val.t = "false" THEN <<"f", "a", "l", "s", "e">>
    ELSE IF val.t = "nan" THEN <<"N", "a", "N">>
    ELSE IF val.t = "arr" THEN <<"[">> \o DumpsItems(val.v, FALSE) \o <<"]">>
    ELSE <<"{">> \o DumpsItems(val.v, TRUE) \o <<"}">>

\* a test `is not None` in the place of the truth value
TruthyNotNone(val) == val.t # "null"

\* bool(val)
Truthy(val) ==
    IF val.t \in {"str", "arr", "obj"} THEN val.v # <<>>
    ELSE IF val.t = "num" THEN val.v # <<"0">>
    ELSE val.t \in {"true", "nan"}

(***************************************************************************)
(* The per-line logic of generate_streaming_response.                      *)
(***************************************************************************)
\* dict.get(key, default) on an object value
DictGet(obj, key, default) ==
    IF \E n \in 1..Len(obj.v) : obj.v[n][1] = key
    THEN obj.v[CHOOSE n \in 1..Len(obj.v) : obj.v[n][1] = key][2]
    ELSE default

NoExc == "none"

\* chunk_data.get("choices", [{}])[0].get("delta", {}).get("content", "")
\* exc names the exception the expression raises, NoExc if it returns val
ExtractContent(chunk_data) ==
    IF chunk_data.t # "obj" THEN [exc |-> "AttributeError", val |-> JNull]
    ELSE LET choices == DictGet(chunk_data, KeyChoices, JArr(<<JObj(<<>>)>>))
         IN  IF choices.t = "obj" THEN [exc |-> "KeyError", val |-> JNull]
             ELSE IF choices.t \notin {"arr", "str"}
                  THEN [exc |-> "TypeError", val |-> JNull]
             ELSE IF choices.v = <<>>
                  THEN [exc |-> "IndexError", val |-> JNull]
             ELSE LET first == IF choices.t = "arr" THEN choices.v[1]
                               ELSE JStr(<<choices.v[1]>>)
                  IN  IF first.t # "obj"
                      THEN [exc |-> "AttributeError", val |-> JNull]
                      ELSE LET delta == DictGet(first, KeyDelta, JObj(<<>>))
                           IN  IF delta.t # "obj"
                               THEN [exc |-> "AttributeError", val |-> JNull]
                               ELSE [exc |-> NoExc,
                                     val |-> DictGet(delta, KeyContent,
                                                     JStr(<<>>))]

\* a relay that yields the bare fragment instead of {"content": fragment}
ContentEventBare(content) == EventHead \o JsonDumps(content) \o EventTail

\* f"data: {json.dumps({'content': content})}\n\n"
ContentEvent(content) ==
    EventHead \o JsonDumps(JObj(<<<<KeyContent, content>>>>)) \o EventTail

Nothing == [events |-> <<>>, exc |-> NoExc]

Yield(ev) == [events |-> <<ev>>, exc |-> NoExc]

Raise(e) == [events |-> <<>>, exc |-> e]

\* a relay without the inner `except json.JSONDecodeError`: the error
\* reaches the handler of the chunk, which gives up the rest of its lines
ParseAndExtractUnguarded(json_str) ==
    LET parsed == JsonLoads(json_str)
    IN  IF ~parsed.ok THEN Raise("JSONDecodeError")
        ELSE LET c == ExtractContent(parsed.val)
             IN  IF c.exc # NoExc THEN Raise(c.exc)
                 ELSE IF Truthy(c.val) THEN Yield(ContentEvent(c.val))
                 ELSE Nothing

\* json.loads(json_str) and the extraction of the delta, inside the
\* try ... except json.JSONDecodeError of the loop body and of the flush
ParseAndExtract(json_str) ==
    LET parsed == JsonLoads(json_str)
    IN  IF ~parsed.ok THEN Nothing
        ELSE LET c == ExtractContent(parsed.val)
             IN  IF c.exc # NoExc THEN Raise(c.exc)
                 ELSE IF Truthy(c.val) THEN Yield(ContentEvent(c.val))
                 ELSE Nothing

\* the body of `for line in complete_lines`
LineOutcome(line) ==
    IF StartsWith(line, DataPrefix) /\ Strip(line) # DoneLine
    THEN LET json_str == Strip(DropFirst(line, 5))
         IN  IF json_str # <<>> THEN ParseAndExtract(json_str) ELSE Nothing
    ELSE IF Strip(line) = DoneLine THEN Yield(DoneEvent)
    ELSE Nothing

\* the processing of the residual buffer once the upstream is exhausted
FlushOutcome(buf) ==
    IF Strip(buf) = <<>> THEN Nothing
    ELSE IF StartsWith(buf, DataPrefix) /\ Strip(buf) # DoneLine
         THEN LET json_str == Strip(DropFirst(buf, 5))
              IN  IF json_str # <<>> /\ json_str # DoneWord
                  THEN ParseAndExtract(json_str)
                  ELSE Nothing
    ELSE IF Strip(buf) = DoneLine THEN Yield(DoneEvent)
    ELSE Nothing

\* the closing `if not buffer.strip().endswith("[DONE]")`
FinalOutcome(buf) ==
    IF ~EndsWith(Strip(buf), DoneWord) THEN Yield(DoneEvent) ELSE Nothing

\* the exceptions `except (ValueError, UnicodeDecodeError)` catches
Caught(e) == e \in {"ValueError", "JSONDecodeError", "UnicodeDecodeError"}

\* a relay that walks the lines of a chunk from the last to the first
ChunkOutcomeReversed(buf, chunk) ==
    IF Strip(chunk) = <<>>
    THEN [buffer |-> buf, complete_lines |-> <<>>]
    ELSE LET d == Utf8Decode(chunk)
         IN  IF ~d.ok THEN [buffer |-> buf, complete_lines |-> <<>>]
             ELSE LET lines == SplitLines(buf \o d.str)
                  IN  [buffer |-> lines[Len(lines)],
                       complete_lines |->
                           [n \in 1..(Len(lines) - 1) |->
                               lines[Len(lines) - n]]]

\* a relay that loses its buffer when a chunk does not decode
ChunkOutcomeLossy(buf, chunk) ==
    IF Strip(chunk) = <<>>
    THEN [buffer |-> buf, complete_lines |-> <<>>]
    ELSE LET d == Utf8Decode(chunk)
         IN  IF ~d.ok THEN [buffer |-> <<>>, complete_lines |-> <<>>]
             ELSE LET lines == SplitLines(buf \o d.str)
                  IN  [buffer |-> lines[Len(lines)],
                       complete_lines |-> SubSeq(lines, 1, Len(lines) - 1)]

\* what the handling of one chunk does to the buffer: a chunk of whitespace
\* only is not looked at, a chunk that does not decode is skipped
ChunkOutcome(buf, chunk) ==
    IF Strip(chunk) = <<>>
    THEN [buffer |-> buf, complete_lines |-> <<>>]
    ELSE LET d == Utf8Decode(chunk)
         IN  IF ~d.ok THEN [buffer |-> buf, complete_lines |-> <<>>]
             ELSE LET lines == SplitLines(buf \o d.str)
                  IN  [buffer |-> lines[Len(lines)],
                       complete_lines |-> SubSeq(lines, 1, Len(lines) - 1)]

(***************************************************************************)
(* The upstream bodies of the model.  A body is made of up to MaxLines     *)
(* lines of one family, each ended by a newline except, possibly, the      *)
(* last one; it holds at most MaxBytes bytes.                              *)
(***************************************************************************)
\* content, the sentinel and the blank line that separates events
FamilyStream == {LineContentX, LineDone, LineBlank}

\* the sentinel with trailing whitespace or without its space
FamilySentinel == {LineContentX, LineDoneSpace, LineDoneNoSpace}

\* a payload that is not JSON, a line that merely ends in [DONE]
FamilyMalformed == {LineContentX, LineMalformed, LineTailDone}

\* payloads that carry no content
FamilyNoContent ==
    {LineDone, LineContentEmpty, LineContentNull, LineContentAbsent}

\* payloads that parse but lack the expected shape
FamilyChoices == {LineDone, LineNoChoices, LineEmptyChoices}

FamilyDelta == {LineDone, LineNoDelta, LineNullDelta}

FamilyOther == {LineDone, LineNullChoice, LineNotObject}

\* content outside ASCII
FamilyUtf8 == {LineContentU}

Families ==
    {FamilyStream, FamilySentinel, FamilyMalformed, FamilyNoContent,
     FamilyChoices, FamilyDelta, FamilyOther, FamilyUtf8}

RECURSIVE JoinLines(_, _)
JoinLines(ls, terminated) ==
    IF ls = <<>> THEN <<>>
    ELSE IF Len(ls) = 1
         THEN Head(ls) \o (IF terminated THEN <<"\n">> ELSE <<>>)
         ELSE Head(ls) \o <<"\n">> \o JoinLines(Tail(ls), terminated)

LineSeqs == UNION {[1..n -> fam] : n \in 0..MaxLines, fam \in Families}

Bodies ==
    {b \in {JoinLines(ls, term) : ls \in LineSeqs, term \in BOOLEAN} :
        Len(b) <= MaxBytes}

(***************************************************************************)
(* The upstream connection of a relay.  `async with client.stream(...)`    *)
(* closes the response however its block is left: by running off its end   *)
(* ("return"), by an exception ("exception") or by GeneratorExit when the  *)
(* generator is closed at a yield ("close").                               *)
(***************************************************************************)
\* a relay that closes the response itself, as the last statement it runs
ReleaseOnReturn(c, how) ==
    IF c = "open" /\ how = "return" THEN "released" ELSE c

\* __aexit__ of `async with client.stream(...) as response`
Release(c, how) ==
    IF c = "open" THEN "released" ELSE c

(***************************************************************************)
(* POST /chat.  An answer of the upstream is what client.post(...) meets;  *)
(* a reply is what chat() gives the HTTP caller: a JSON body, a            *)
(* StreamingResponse, or an HTTPException that FastAPI turns into a        *)
(* response with its status code and detail.  The detail is kept as the    *)
(* fixed prefix the code writes, a text and, where the code passes one on, *)
(* a JSON value.                                                           *)
(***************************************************************************)
\* error
KeyOfError ==
    <<"e", "r", "r", "o", "r">>

\* message
KeyOfMessage ==
    <<"m", "e", "s", "s", "a", "g", "e">>

\* Unknown error
UnknownError ==
    <<"U", "n", "k", "n", "o", "w", "n", " ", "e", "r", "r", "o", "r">>

\* {"choices":[{"message":{"content":"x"}}]}
BodyReply ==
    <<"{", "\"", "c", "h", "o", "i", "c", "e", "s", "\"", ":", "[", "{",
    "\"", "m", "e", "s", "s", "a", "g", "e", "\"", ":", "{", "\"", "c", "o",
    "n", "t", "e", "n", "t", "\"", ":", "\"", "x", "\"", "}", "}", "]",
    "}">>

\* {"error":{"message":"m"}}
BodyError ==
    <<"{", "\"", "e", "r", "r", "o", "r", "\"", ":", "{", "\"", "m", "e",
    "s", "s", "a", "g", "e", "\"", ":", "\"", "m", "\"", "}", "}">>

\* {"error":{}}
BodyErrorBare ==
    <<"{", "\"", "e", "r", "r", "o", "r", "\"", ":", "{", "}", "}">>

\* {"error":{"message":"m"},"choices":[{"message":{"content":"x"}}]}
BodyErrorAndReply ==
    <<"{", "\"", "e", "r", "r", "o", "r", "\"", ":", "{", "\"", "m", "e",
    "s", "s", "a", "g", "e", "\"", ":", "\"", "m", "\"", "}", ",", "\"", "c",
    "h", "o", "i", "c", "e", "s", "\"", ":", "[", "{", "\"", "m", "e", "s",
    "s", "a", "g", "e", "\"", ":", "{", "\"", "c", "o", "n", "t", "e", "n",
    "t", "\"", ":", "\"", "x", "\"", "}", "}", "]", "}">>

\* {}
BodyNoChoices ==
    <<"{", "}">>

\* {"choices":[]}
BodyEmptyChoices ==
    <<"{", "\"", "c", "h", "o", "i", "c", "e", "s", "\"", ":", "[", "]",
    "}">>

\* {"choices":[{}]}
BodyNoMessage ==
    <<"{", "\"", "c", "h", "o", "i", "c", "e", "s", "\"", ":", "[", "{", "}",
    "]", "}">>

\* {"choices":[{"message":{}}]}
BodyNoContent ==
    <<"{", "\"", "c", "h", "o", "i", "c", "e", "s", "\"", ":", "[", "{",
    "\"", "m", "e", "s", "s", "a", "g", "e", "\"", ":", "{", "}", "}", "]",
    "}">>

\* {"choices":[{"message":{"content":null}}]}
BodyNullContent ==
    <<"{", "\"", "c", "h", "o", "i", "c", "e", "s", "\"", ":", "[", "{",
    "\"", "m", "e", "s", "s", "a", "g", "e", "\"", ":", "{", "\"", "c", "o",
    "n", "t", "e", "n", "t", "\"", ":", "n", "u", "l", "l", "}", "}", "]",
    "}">>

\* no
BodyNotJson ==
    <<"n", "o">>

\* the bodies an upstream answer may carry
ChatBodies ==
    {BodyReply, BodyError, BodyErrorBare, BodyErrorAndReply, BodyNoChoices,
     BodyEmptyChoices, BodyNoMessage, BodyNoContent, BodyNullContent,
     BodyNotJson}

\* the status codes an upstream answer may carry
UpstreamStatuses == {200, 302, 401, 429, 503}

NoAnswer == [kind |-> "none", status_code |-> 0, text |-> <<>>]

\* client.post(...) raises httpx.RequestError: no answer came
RequestFailed == [kind |-> "RequestError", status_code |-> 0, text |-> <<>>]

Answer(status_code, text) ==
    [kind |-> "response", status_code |-> status_code, text |-> text]

UpstreamAnswers ==
    {RequestFailed}
        \cup {Answer(s, t) : s \in UpstreamStatuses, t \in ChatBodies}

\* response.is_success
IsSuccess(status_code) == status_code \in 200..299

NoReply ==
    [kind |-> "none", status_code |-> 0, prefix |-> "", text |-> <<>>,
     val |-> JNull]

\* StreamingResponse(stream_response(), media_type="text/event-stream")
StreamingResponse ==
    [kind |-> "stream", status_code |-> 200, prefix |-> "", text |-> <<>>,
     val |-> JNull]

\* return {"response": reply_text}
JsonReply(reply_text) ==
    [kind |-> "json", status_code |-> 200, prefix |-> "", text |-> <<>>,
     val |-> reply_text]

\* raise HTTPException(status_code=..., detail=f"{prefix}{text}{val}")
HTTPException(status_code, prefix, text, val) ==
    [kind |-> "HTTPException", status_code |-> status_code,
     prefix |-> prefix, text |-> text, val |-> val]

\* what the statements inside `try:` come to: a value returned, or an
\* exception with the status code and the detail given to it
ChatReturn(val) ==
    [exc |-> NoExc, status_code |-> 0, text |-> <<>>, val |-> val]

ChatRaise(e, text) ==
    [exc |-> e, status_code |-> 0, text |-> text, val |-> JNull]

ChatRaiseHTTP(status_code, val) ==
    [exc |-> "HTTPException", status_code |-> status_code, text |-> <<>>,
     val |-> val]

\* `key in r` for a value r that json() returned
PyIn(key, r) ==
    IF r.t = "obj"
    THEN [exc |-> NoExc, val |-> \E n \in 1..Len(r.v) : r.v[n][1] = key]
    ELSE IF r.t = "arr"
    THEN [exc |-> NoExc,
          val |-> \E n \in 1..Len(r.v) :
                      r.v[n].t = "str" /\ r.v[n].v = key]
    ELSE IF r.t = "str"
    THEN [exc |-> NoExc,
          val |-> \E i \in 1..(Len(r.v) - Len(key) + 1) :
                      SubSeq(r.v, i, i + Len(key) - 1) = key]
    ELSE [exc |-> "TypeError", val |-> FALSE]

\* r[key] for a key that is a string
PySubscript(r, key) ==
    IF r.t # "obj" THEN [exc |-> "TypeError", val |-> JNull]
    ELSE IF \E n \in 1..Len(r.v) : r.v[n][1] = key
         THEN [exc |-> NoExc, val |-> DictGet(r, key, JNull)]
         ELSE [exc |-> "KeyError", val |-> JNull]

\* r[0]
PyFirst(r) ==
    IF r.t = "obj" THEN [exc |-> "KeyError", val |-> JNull]
    ELSE IF r.t \notin {"arr", "str"} THEN [exc |-> "TypeError", val |-> JNull]
    ELSE IF r.v = <<>> THEN [exc |-> "IndexError", val |-> JNull]
    ELSE [exc |-> NoExc,
          val |-> IF r.t = "arr" THEN r.v[1] ELSE JStr(<<r.v[1]>>)]

\* len(r) is defined
HasLen(r) == r.t \in {"str", "arr", "obj"}

\* reply_text = openrouter_response["choices"][0]["message"]["content"],
\* len(reply_text) and the return
ReplyOutcome(choices) ==
    LET first == PyFirst(choices)
    IN  IF first.exc # NoExc THEN ChatRaise(first.exc, <<>>)
        ELSE LET msg == PySubscript(first.val, KeyOfMessage)
             IN  IF msg.exc # NoExc THEN ChatRaise(msg.exc, <<>>)
                 ELSE LET content == PySubscript(msg.val, KeyContent)
                      IN  IF content.exc # NoExc
                          THEN ChatRaise(content.exc, <<>>)
                          ELSE IF ~HasLen(content.val)
                          THEN ChatRaise("TypeError", <<>>)
                          ELSE ChatReturn(content.val)

\* the test of the response format and what follows it
ChoicesOutcome(r) ==
    IF ~PyIn(KeyChoices, r).val
    THEN ChatRaise("ValueError", <<"Invalid response format from OpenRouter">>)
    ELSE LET choices == PySubscript(r, KeyChoices)
         IN  IF choices.exc # NoExc THEN ChatRaise(choices.exc, <<>>)
             ELSE IF ~HasLen(choices.val) THEN ChatRaise("TypeError", <<>>)
             ELSE IF Len(choices.val.v) = 0
             THEN ChatRaise("ValueError",
                            <<"Invalid response format from OpenRouter">>)
             ELSE ReplyOutcome(choices.val)

\* the statements that follow openrouter_response = response.json()
BodyOutcome(r) ==
    LET inErr == PyIn(KeyOfError, r)
    IN  IF inErr.exc # NoExc THEN ChatRaise(inErr.exc, <<>>)
        ELSE IF inErr.val
        THEN LET err == PySubscript(r, KeyOfError)
             IN  IF err.exc # NoExc THEN ChatRaise(err.exc, <<>>)
                 ELSE IF err.val.t # "obj"
                 THEN ChatRaise("AttributeError", <<>>)
                 ELSE ChatRaiseHTTP(400, DictGet(err.val, KeyOfMessage,
                                                 JStr(UnknownError)))
        ELSE ChoicesOutcome(r)

\* a handler that does not call response.raise_for_status()
PostOutcomeAnyStatus(u) ==
    IF u.kind = "RequestError" THEN ChatRaise("RequestError", <<>>)
    ELSE LET parsed == JsonLoads(u.text)
         IN  IF ~parsed.ok THEN ChatRaise("JSONDecodeError", u.text)
             ELSE BodyOutcome(parsed.val)

\* client.post(...), response.raise_for_status(), response.json() and the
\* rest of the `try:` block of a request that is not streamed
PostOutcome(u) ==
    IF u.kind = "RequestError" THEN ChatRaise("RequestError", <<>>)
    ELSE IF ~IsSuccess(u.status_code) THEN ChatRaise("HTTPStatusError", u.text)
    ELSE LET parsed == JsonLoads(u.text)
         IN  IF ~parsed.ok THEN ChatRaise("JSONDecodeError", u.text)
             ELSE BodyOutcome(parsed.val)

\* the `except` clauses of chat(), in their order
ChatReply(o, u) ==
    IF o.exc = NoExc THEN JsonReply(o.val)
    ELSE IF o.exc = "HTTPStatusError"
    THEN HTTPException(u.status_code, "OpenRouter API error: ", u.text, JNull)
    ELSE IF o.exc = "RequestError"
    THEN HTTPException(500, "Network error: ", o.text, JNull)
    ELSE IF o.exc \in {"ValueError", "JSONDecodeError"}
    THEN HTTPException(500, "", o.text, JNull)
    ELSE HTTPException(500, "An unexpected error occurred: ", o.text, o.val)

(***************************************************************************)
(* The state of the program: one /chat request, the relay that serves it   *)
(* when it streams, and, for the runs of several relays side by side,      *)
(* the invocations of generate_streaming_response.                         *)
(***************************************************************************)
VARIABLES
    body,            \* the bytes the upstream sends if nothing fails
    pos,             \* how many of them response.aiter_bytes() has delivered
    buffer,          \* the local `buffer`
    complete_lines,  \* the lines of the current chunk still to be processed
    emitted,         \* the events yielded so far
    pc,              \* "chat", "responded", "start", "loop", "final",
                     \* "done", "raised" or "closed"
    error,           \* the exception that left the generator, NoExc if none
    conn,            \* the upstream response of client.stream(...):
                     \* "none", "open" or "released"
    message,         \* the request body of POST /chat
    openrouter_api_key,  \* the module's key, "" when the variable is unset
    upstream,        \* what client.post(...) met, for a request not streamed
    reply,           \* what the HTTP caller has been answered so far
    relays           \* the invocations that run side by side

relayVars == <<body, pos, buffer, complete_lines, emitted, pc, error, conn>>

chatVars == <<message, openrouter_api_key, upstream, reply>>

vars == <<relayVars, chatVars, relays>>

\* the generator of a streamed request, created and not yet iterated
Init ==
    /\ body \in Bodies
    /\ pos = 0
    /\ buffer = <<>>
    /\ complete_lines = <<>>
    /\ emitted = <<>>
    /\ pc = "start"
    /\ error = NoExc
    /\ conn = "none"
    /\ message = [use_streaming |-> TRUE]
    /\ openrouter_api_key = "key"
    /\ upstream = NoAnswer
    /\ reply = StreamingResponse
    /\ relays = <<>>

\* client.stream(...) is entered and response.raise_for_status() passes
Connect ==
    /\ pc = "start"
    /\ pc' = "loop"
    /\ conn' = "open"
    /\ UNCHANGED <<body, pos, buffer, complete_lines, emitted, error>>
    /\ UNCHANGED <<chatVars, relays>>

\* client.stream(...) fails to connect, or raise_for_status() raises on the
\* response it has opened
ConnectFail ==
    /\ pc = "start"
    /\ \E e \in {"ConnectError", "HTTPStatusError"} :
         /\ error' = e
         /\ conn' = IF e = "ConnectError" THEN conn
                    ELSE Release("open", "exception")
    /\ pc' = "raised"
    /\ UNCHANGED <<body, pos, buffer, complete_lines, emitted>>
    /\ UNCHANGED <<chatVars, relays>>

\* one iteration of `async for chunk in response.aiter_bytes()` up to the
\* start of `for line in complete_lines`
RecvChunkOf(n) ==
    /\ pc = "loop"
    /\ complete_lines = <<>>
    /\ \E o \in {ChunkOutcome(buffer, SubSeq(body, pos + 1, pos + n))} :
         /\ pos' = pos + n
         /\ buffer' = o.buffer
         /\ complete_lines' = o.complete_lines
    /\ UNCHANGED <<body, emitted, pc, error, conn>>
    /\ UNCHANGED <<chatVars, relays>>

\* the transport cuts the rest of the body wherever it likes
RecvChunk == \E n \in 1..(Len(body) - pos) : RecvChunkOf(n)

\* one iteration of `for line in complete_lines`
ProcessLine ==
    /\ pc = "loop"
    /\ complete_lines # <<>>
    /\ \E o \in {LineOutcome(Head(complete_lines))} :
         IF o.exc = NoExc \/ Caught(o.exc)
         THEN /\ emitted' = emitted \o o.events
              /\ complete_lines' = IF o.exc = NoExc
                                   THEN Tail(complete_lines) ELSE <<>>
              /\ UNCHANGED <<pc, error, conn>>
         ELSE /\ pc' = "raised"
              /\ error' = o.exc
              /\ conn' = Release(conn, "exception")
              /\ UNCHANGED <<emitted, complete_lines>>
    /\ UNCHANGED <<body, pos, buffer>>
    /\ UNCHANGED <<chatVars, relays>>

\* a relay that closes the stream with a sentinel when the read fails
ReadErrorAsEvent ==
    /\ pc = "loop"
    /\ complete_lines = <<>>
    /\ pc' = "raised"
    /\ error' = "ReadError"
    /\ conn' = Release(conn, "exception")
    /\ emitted' = Append(emitted, DoneEvent)
    /\ UNCHANGED <<body, pos, buffer, complete_lines>>
    /\ UNCHANGED <<chatVars, relays>>

\* response.aiter_bytes() raises while the body is being read
ReadError ==
    /\ pc = "loop"
    /\ complete_lines = <<>>
    /\ pc' = "raised"
    /\ error' = "ReadError"
    /\ conn' = Release(conn, "exception")
    /\ UNCHANGED <<body, pos, buffer, complete_lines, emitted>>
    /\ UNCHANGED <<chatVars, relays>>

\* the upstream is exhausted: the residual buffer is processed
Flush ==
    /\ pc = "loop"
    /\ complete_lines = <<>>
    /\ pos = Len(body)
    /\ \E o \in {FlushOutcome(buffer)} :
         IF o.exc = NoExc \/ Caught(o.exc)
         THEN /\ emitted' = emitted \o o.events
              /\ pc' = "final"
              /\ UNCHANGED <<error, conn>>
         ELSE /\ pc' = "raised"
              /\ error' = o.exc
              /\ conn' = Release(conn, "exception")
              /\ UNCHANGED emitted
    /\ UNCHANGED <<body, pos, buffer, complete_lines>>
    /\ UNCHANGED <<chatVars, relays>>

\* the closing sentinel, the end of `async with` and of the generator
Final ==
    /\ pc = "final"
    /\ emitted' = emitted \o FinalOutcome(buffer).events
    /\ pc' = "done"
    /\ conn' = Release(conn, "return")
    /\ UNCHANGED <<body, pos, buffer, complete_lines, error>>
    /\ UNCHANGED <<chatVars, relays>>

\* the consumer stops iterating and the generator is closed: GeneratorExit
\* is raised at the yield where it is suspended (nothing happens to a
\* generator that was never started)
Close ==
    /\ pc \in {"start", "loop", "final"}
    /\ pc' = "closed"
    /\ conn' = Release(conn, "close")
    /\ UNCHANGED <<body, pos, buffer, complete_lines, emitted, error>>
    /\ UNCHANGED <<chatVars, relays>>

Next ==
    \/ Connect
    \/ ConnectFail
    \/ RecvChunk
    \/ ProcessLine
    \/ ReadError
    \/ Flush
    \/ Final
    \/ Close

Spec == Init /\ [][Next]_vars

(***************************************************************************)
(* The same relay fed one newline-terminated `data:` line that the         *)
(* transport delivers in two chunks: a non-empty proper prefix of the      *)
(* line, then the remainder with the newline.                              *)
(***************************************************************************)
DataLines ==
    {l \in UNION Families : StartsWith(l, DataPrefix)}

InitTwoChunks ==
    /\ body \in {l \o <<"\n">> : l \in DataLines}
    /\ pos = 0
    /\ buffer = <<>>
    /\ complete_lines = <<>>
    /\ emitted = <<>>
    /\ pc = "start"
    /\ error = NoExc
    /\ conn = "none"
    /\ message = [use_streaming |-> TRUE]
    /\ openrouter_api_key = "key"
    /\ upstream = NoAnswer
    /\ reply = StreamingResponse
    /\ relays = <<>>

RecvTwoChunks ==
    \E n \in (IF pos = 0 THEN 1..(Len(body) - 2) ELSE {Len(body) - pos}) :
        /\ pos < Len(body)
        /\ RecvChunkOf(n)

NextTwoChunks ==
    \/ Connect
    \/ ConnectFail
    \/ RecvTwoChunks
    \/ ProcessLine
    \/ ReadError
    \/ Flush
    \/ Final
    \/ Close

SpecTwoChunks == InitTwoChunks /\ [][NextTwoChunks]_vars

(***************************************************************************)
(* POST /chat from the request on: chat() answers at once when the key is  *)
(* missing, answers a request that is not streamed after one call of the   *)
(* upstream, and answers a streamed request with a StreamingResponse       *)
(* whose body the relay then produces.                                     *)
(***************************************************************************)
\* the upstream bodies of the streamed requests
StreamBodies ==
    {b \in {JoinLines(ls, term) :
                ls \in UNION {[1..n -> FamilyStream] : n \in 0..MaxLines},
                term \in BOOLEAN} :
        Len(b) <= MaxBytes}

InitChat ==
    /\ message \in {[use_streaming |-> s] : s \in BOOLEAN}
    /\ openrouter_api_key \in {"", "key"}
    /\ body \in (IF message.use_streaming THEN StreamBodies ELSE {<<>>})
    /\ pos = 0
    /\ buffer = <<>>
    /\ complete_lines = <<>>
    /\ emitted = <<>>
    /\ pc = "chat"
    /\ error = NoExc
    /\ conn = "none"
    /\ upstream = NoAnswer
    /\ reply = NoReply
    /\ relays = <<>>

\* `if not openrouter_api_key: ... raise HTTPException(status_code=500, ...)`
ChatNoKey ==
    /\ pc = "chat"
    /\ openrouter_api_key = ""
    /\ reply' = HTTPException(500, "OpenRouter API key is not set. ",
                              <<>>, JNull)
    /\ pc' = "responded"
    /\ UNCHANGED <<body, pos, buffer, complete_lines, emitted, error, conn>>
    /\ UNCHANGED <<message, openrouter_api_key, upstream, relays>>

\* `if message.use_streaming:` the generator is created and handed over
ChatStreaming ==
    /\ pc = "chat"
    /\ openrouter_api_key # ""
    /\ message.use_streaming
    /\ reply' = StreamingResponse
    /\ pc' = "start"
    /\ UNCHANGED <<body, pos, buffer, complete_lines, emitted, error, conn>>
    /\ UNCHANGED <<message, openrouter_api_key, upstream, relays>>

\* `else:` one call of the upstream, its answer turned into the reply
ChatNotStreaming ==
    /\ pc = "chat"
    /\ openrouter_api_key # ""
    /\ ~message.use_streaming
    /\ \E u \in UpstreamAnswers :
         /\ upstream' = u
         /\ reply' = ChatReply(PostOutcome(u), u)
    /\ pc' = "responded"
    /\ UNCHANGED <<body, pos, buffer, complete_lines, emitted, error, conn>>
    /\ UNCHANGED <<message, openrouter_api_key, relays>>

NextChat ==
    \/ ChatNoKey
    \/ ChatStreaming
    \/ ChatNotStreaming
    \/ Connect
    \/ ConnectFail
    \/ RecvChunk
    \/ ProcessLine
    \/ ReadError
    \/ Flush
    \/ Final
    \/ Close

SpecChat == InitChat /\ [][NextChat]_vars

(***************************************************************************)
(* Several requests served side by side: every streamed request has its    *)
(* own httpx.AsyncClient and its own invocation of                         *)
(* generate_streaming_response, whose buffer, lines and position are       *)
(* locals of the generator.  The event loop interleaves the invocations    *)
(* at their awaits and yields, in any order.  The upstream input of an     *)
(* invocation is the sequence of chunks its transport delivers.            *)
(***************************************************************************)
Invocations == {1, 2}

\* a body delivered whole, or cut in two after its n-th byte
Cuts(b) ==
    {<<b>>}
        \cup {<<SubSeq(b, 1, n), SubSeq(b, n + 1, Len(b))>> :
                  n \in {6, 40, Len(b) - 13} \cap 1..(Len(b) - 1)}

\* content then the sentinel, content outside ASCII, a payload that raises
ConcurrentInputs ==
    Cuts(JoinLines(<<LineContentX, LineDone>>, TRUE))
        \cup Cuts(JoinLines(<<LineContentU>>, TRUE))
        \cup Cuts(JoinLines(<<LineEmptyChoices>>, TRUE))

\* the locals of an invocation that has not started
NewRelay(chunks) ==
    [chunks |-> chunks, received |-> 0, buffer |-> <<>>,
     complete_lines |-> <<>>, emitted |-> <<>>, pc |-> "start",
     error |-> NoExc, conn |-> "none"]

InitConcurrent ==
    /\ relays \in [Invocations -> {NewRelay(c) : c \in ConcurrentInputs}]
    /\ body = <<>>
    /\ pos = 0
    /\ buffer = <<>>
    /\ complete_lines = <<>>
    /\ emitted = <<>>
    /\ pc = "responded"
    /\ error = NoExc
    /\ conn = "none"
    /\ message = [use_streaming |-> TRUE]
    /\ openrouter_api_key = "key"
    /\ upstream = NoAnswer
    /\ reply = StreamingResponse

\* invocation i goes on with the locals r; nothing else changes
Becomes(i, r) ==
    /\ relays' = [relays EXCEPT ![i] = r]
    /\ UNCHANGED <<relayVars, chatVars>>

\* a relay whose buffer is one variable of the module
BufferShared(i) == relays[1].buffer

\* the `buffer` that invocation i reads: its own local
BufferOf(i) == relays[i].buffer

RelayConnect(i) ==
    /\ relays[i].pc = "start"
    /\ Becomes(i, [relays[i] EXCEPT !.pc = "loop", !.conn = "open"])

RelayConnectFail(i) ==
    /\ relays[i].pc = "start"
    /\ \E e \in {"ConnectError", "HTTPStatusError"} :
         Becomes(i, [relays[i] EXCEPT
                        !.pc = "raised",
                        !.error = e,
                        !.conn = IF e = "ConnectError" THEN @
                                 ELSE Release("open", "exception")])

RelayRecvChunk(i) ==
    /\ relays[i].pc = "loop"
    /\ relays[i].complete_lines = <<>>
    /\ relays[i].received < Len(relays[i].chunks)
    /\ \E o \in {ChunkOutcome(BufferOf(i),
                              relays[i].chunks[relays[i].received + 1])} :
         Becomes(i, [relays[i] EXCEPT
                        !.received = @ + 1,
                        !.buffer = o.buffer,
                        !.complete_lines = o.complete_lines])

RelayProcessLine(i) ==
    /\ relays[i].pc = "loop"
    /\ relays[i].complete_lines # <<>>
    /\ \E o \in {LineOutcome(Head(relays[i].complete_lines))} :
         IF o.exc = NoExc \/ Caught(o.exc)
         THEN Becomes(i, [relays[i] EXCEPT
                             !.emitted = @ \o o.events,
                             !.complete_lines = IF o.exc = NoExc
                                                THEN Tail(@) ELSE <<>>])
         ELSE Becomes(i, [relays[i] EXCEPT
                             !.pc = "raised",
                             !.error = o.exc,
                             !.conn = Release(@, "exception")])

RelayReadError(i) ==
    /\ relays[i].pc = "loop"
    /\ relays[i].complete_lines = <<>>
    /\ Becomes(i, [relays[i] EXCEPT
                      !.pc = "raised",
                      !.error = "ReadError",
                      !.conn = Release(@, "exception")])

RelayFlush(i) ==
    /\ relays[i].pc = "loop"
    /\ relays[i].complete_lines = <<>>
    /\ relays[i].received = Len(relays[i].chunks)
    /\ \E o \in {FlushOutcome(BufferOf(i))} :
         IF o.exc = NoExc \/ Caught(o.exc)
         THEN Becomes(i, [relays[i] EXCEPT
                             !.emitted = @ \o o.events,
                             !.pc = "final"])
         ELSE Becomes(i, [relays[i] EXCEPT
                             !.pc = "raised",
                             !.error = o.exc,
                             !.conn = Release(@, "exception")])

RelayFinal(i) ==
    /\ relays[i].pc = "final"
    /\ Becomes(i, [relays[i] EXCEPT
                      !.emitted = @ \o FinalOutcome(BufferOf(i)).events,
                      !.pc = "done",
                      !.conn = Release(@, "return")])

RelayClose(i) ==
    /\ relays[i].pc \in {"start", "loop", "final"}
    /\ Becomes(i, [relays[i] EXCEPT
                      !.pc = "closed",
                      !.conn = Release(@, "close")])

NextConcurrent ==
    \/ \E i \in Invocations : RelayConnect(i)
    \/ \E i \in Invocations : RelayConnectFail(i)
    \/ \E i \in Invocations : RelayRecvChunk(i)
    \/ \E i \in Invocations : RelayProcessLine(i)
    \/ \E i \in Invocations : RelayReadError(i)
    \/ \E i \in Invocations : RelayFlush(i)
    \/ \E i \in Invocations : RelayFinal(i)
    \/ \E i \in Invocations : RelayClose(i)

SpecConcurrent == InitConcurrent /\ [][NextConcurrent]_vars

(***************************************************************************)
(* The same relay fed two lines, each a content line with a fragment of    *)
(* its own or the sentinel, cut into chunks at will.                       *)
(***************************************************************************)
OrderLines == {LineContentX, LineContentY, LineDone}

OrderBodies ==
    {JoinLines(ls, term) : ls \in [1..2 -> OrderLines], term \in BOOLEAN}

InitOrder ==
    /\ body \in OrderBodies
    /\ pos = 0
    /\ buffer = <<>>
    /\ complete_lines = <<>>
    /\ emitted = <<>>
    /\ pc = "start"
    /\ error = NoExc
    /\ conn = "none"
    /\ message = [use_streaming |-> TRUE]
    /\ openrouter_api_key = "key"
    /\ upstream = NoAnswer
    /\ reply = StreamingResponse
    /\ relays = <<>>

SpecOrder == InitOrder /\ [][Next]_vars

(***************************************************************************)
(* The events of a whole run, as a function of the chunks delivered.       *)
(***************************************************************************)
\* `for line in complete_lines`, up to the first exception that escapes
RECURSIVE RunLines(_)
RunLines(lines) ==
    IF lines = <<>> THEN Nothing
    ELSE LET o == LineOutcome(Head(lines))
         IN  IF o.exc # NoExc THEN o
             ELSE LET rest == RunLines(Tail(lines))
                  IN  [events |-> o.events \o rest.events, exc |-> rest.exc]

\* the run of generate_streaming_response on a body delivered as one chunk
OneChunkOutput(b) ==
    LET c == IF b = <<>> THEN [buffer |-> <<>>, complete_lines |-> <<>>]
             ELSE ChunkOutcome(<<>>, b)
        inLoop == RunLines(c.complete_lines)
        atEnd == FlushOutcome(c.buffer)
    IN  IF inLoop.exc # NoExc THEN inLoop
        ELSE IF atEnd.exc # NoExc
             THEN [events |-> inLoop.events, exc |-> atEnd.exc]
             ELSE [events |-> inLoop.events \o atEnd.events
                                 \o FinalOutcome(c.buffer).events,
                   exc |-> NoExc]

(***************************************************************************)
(* Vocabulary of the properties: what a line of the upstream says,         *)
(* read off its JSON independently of the relay's own extraction.          *)
(***************************************************************************)
HasKey(obj, key) == \E n \in 1..Len(obj.v) : obj.v[n][1] = key

ValueAt(obj, key) == obj.v[CHOOSE n \in 1..Len(obj.v) : obj.v[n][1] = key][2]

\* the text after the `data:` prefix of a line
PayloadOf(line) == DropFirst(line, Len(DataPrefix))

\* the line is a `data:` line whose payload is JSON
IsJsonDataLine(line) ==
    StartsWith(line, DataPrefix) /\ JsonLoads(PayloadOf(line)).ok

JsonOf(line) == JsonLoads(PayloadOf(line)).val

\* the JSON value has an object at choices[0].delta
HasDelta(val) ==
    /\ val.t = "obj"
    /\ HasKey(val, KeyChoices)
    /\ ValueAt(val, KeyChoices).t = "arr"
    /\ ValueAt(val, KeyChoices).v # <<>>
    /\ ValueAt(val, KeyChoices).v[1].t = "obj"
    /\ HasKey(ValueAt(val, KeyChoices).v[1], KeyDelta)
    /\ ValueAt(ValueAt(val, KeyChoices).v[1], KeyDelta).t = "obj"

DeltaOf(val) == ValueAt(ValueAt(val, KeyChoices).v[1], KeyDelta)

\* the line carries a non-empty text at choices[0].delta.content
HasContentText(line) ==
    /\ IsJsonDataLine(line)
    /\ HasDelta(JsonOf(line))
    /\ HasKey(DeltaOf(JsonOf(line)), KeyContent)
    /\ ValueAt(DeltaOf(JsonOf(line)), KeyContent).t = "str"
    /\ ValueAt(DeltaOf(JsonOf(line)), KeyContent).v # <<>>

ContentTextOf(line) == ValueAt(DeltaOf(JsonOf(line)), KeyContent).v

\* choices[0].delta.content is the empty string, null or absent
HasNoContent(line) ==
    /\ IsJsonDataLine(line)
    /\ HasDelta(JsonOf(line))
    /\ \/ ~HasKey(DeltaOf(JsonOf(line)), KeyContent)
       \/ ValueAt(DeltaOf(JsonOf(line)), KeyContent) \in {JNull, JStr(<<>>)}

\* the line is a `data:` line, not the sentinel, whose payload is not JSON
IsMalformedDataLine(line) ==
    /\ StartsWith(line, DataPrefix)
    /\ Strip(line) # DoneLine
    /\ ~JsonLoads(PayloadOf(line)).ok

\* the payload is JSON of another shape than {"choices": [{"delta": {...}}]}
IsShapelessDataLine(line) ==
    /\ IsJsonDataLine(line)
    /\ ~HasDelta(JsonOf(line))

\* {"content":
ContentOpen ==
    <<"{", "\"", "c", "o", "n", "t", "e", "n", "t", "\"", ":", " ">>

\* ev is `data: {"content": <c as a JSON string>}\n\n`
EventCarries(ev, c) ==
    LET open == EventHead \o ContentOpen
        close == <<"}">> \o EventTail
    IN  /\ StartsWith(ev, open)
        /\ EndsWith(ev, close)
        /\ Len(ev) >= Len(open) + Len(close)
        /\ JsonLoads(SubSeq(ev, Len(open) + 1, Len(ev) - Len(close)))
             = [ok |-> TRUE, val |-> JStr(c)]

\* the content events of a sequence of events
IsContentEvent(ev) == ev # DoneEvent

Fragments(events) == SelectSeq(events, IsContentEvent)

IsDoneEvent(ev) == ev = DoneEvent

Sentinels(events) == Len(SelectSeq(events, IsDoneEvent))

\* the body is an event stream: it decodes, ends with a newline, and each of
\* its lines is blank, the sentinel or a delta of the expected shape
ValidSse(b) ==
    /\ Utf8Decode(b).ok
    /\ LET ls == SplitLines(Utf8Decode(b).str)
       IN  /\ ls[Len(ls)] = <<>>
           /\ \A i \in 1..Len(ls) :
                \/ ls[i] = <<>>
                \/ ls[i] = DoneLine
                \/ /\ StartsWith(ls[i], EventHead)
                   /\ IsJsonDataLine(ls[i])
                   /\ HasDelta(JsonOf(ls[i]))

\* the relay is about to process the first of the lines of a chunk
AtLine == pc = "loop" /\ complete_lines # <<>>

\* the step processes that line: the consumer does not close the generator
LineStep == AtLine /\ pc' # "closed"

TransportErrors == {"ConnectError", "HTTPStatusError", "ReadError"}

\* data: {"content": "x"}\n\n
EventX == EventHead \o ContentOpen \o <<"\"", "x", "\"", "}">> \o EventTail

(***************************************************************************)
(* C1.  Re-chunking invariance: for a body that is a valid event stream,   *)
(* a completed run emits, however the transport cut the body into chunks,  *)
(* the content fragments that the body delivered as one chunk yields.      *)
(***************************************************************************)
RechunkingInvariance ==
    (pc = "done" /\ ValidSse(body))
        => Fragments(emitted) = Fragments(OneChunkOutput(body).events)

(***************************************************************************)
(* C2.  A completed run has emitted the sentinel event exactly once.       *)
(***************************************************************************)
ExactlyOneSentinel == pc = "done" => Sentinels(emitted) = 1

(***************************************************************************)
(* C3.  The last event of a run that ends without a transport error is     *)
(* the sentinel event.                                                     *)
(***************************************************************************)
LastEventIsSentinel ==
    pc = "done" => (emitted # <<>> /\ emitted[Len(emitted)] = DoneEvent)

(***************************************************************************)
(* C4.  Processing a complete line that carries a non-empty text c at      *)
(* choices[0].delta.content appends exactly one event, which is            *)
(* `data: {"content": c}\n\n`; processing any line appends at most one     *)
(* event.                                                                  *)
(***************************************************************************)
ContentLineEmitsOneEvent ==
    [][LineStep =>
         /\ Len(emitted') <= Len(emitted) + 1
         /\ SubSeq(emitted', 1, Len(emitted)) = emitted
         /\ HasContentText(Head(complete_lines)) =>
              /\ Len(emitted') = Len(emitted) + 1
              /\ EventCarries(emitted'[Len(emitted')],
                              ContentTextOf(Head(complete_lines)))
              /\ complete_lines' = Tail(complete_lines)
              /\ pc' = "loop"]_vars

\* the line with the content U+00E9 has been processed in the loop and its
\* event, with the character escaped, is the only one emitted so far
WitnessContentLine ==
    /\ pc = "loop"
    /\ body = LineContentU \o <<"\n">>
    /\ pos = Len(body)
    /\ complete_lines = <<>>
    /\ Len(emitted) = 1
    /\ EventCarries(emitted[1], <<"U+00E9">>)

(***************************************************************************)
(* C5.  Processing a complete `data:` line whose payload is not JSON emits *)
(* nothing, raises nothing and leaves the relay in the state it would be   *)
(* in had the line not been there: same buffer, the lines after it still   *)
(* to be processed.                                                        *)
(***************************************************************************)
MalformedLineIsDropped ==
    [][(LineStep /\ IsMalformedDataLine(Head(complete_lines))) =>
         /\ emitted' = emitted
         /\ pc' = "loop"
         /\ error' = NoExc
         /\ complete_lines' = Tail(complete_lines)
         /\ buffer' = buffer
         /\ pos' = pos]_vars

\* a malformed line came first and the content line after it got its event
WitnessMalformedLine ==
    /\ pc = "done"
    /\ body = LineMalformed \o <<"\n">> \o LineContentX \o <<"\n">>
    /\ emitted = <<EventX, DoneEvent>>

(***************************************************************************)
(* C6.  One `data:` line delivered as a proper prefix and then the rest    *)
(* with the newline: the prefix is retained in the buffer and nothing is   *)
(* emitted for it, and the completed run has emitted what the line         *)
(* delivered in one chunk yields.                                          *)
(***************************************************************************)
Utf8Byte(c) == IF c = "U+00E9" THEN <<"C3", "A9">> ELSE <<c>>

RECURSIVE Utf8Encode(_)
Utf8Encode(s) ==
    IF s = <<>> THEN <<>> ELSE Utf8Byte(Head(s)) \o Utf8Encode(Tail(s))

SplitLineSameAsWhole ==
    /\ (pc = "loop" /\ 0 < pos /\ pos < Len(body)) =>
          /\ Utf8Encode(buffer) = SubSeq(body, 1, pos)
          /\ emitted = <<>>
    /\ pc = "done" => emitted = OneChunkOutput(body).events

(***************************************************************************)
(* C7.  Processing a complete `data:` line whose JSON has an empty string, *)
(* null or nothing at choices[0].delta.content emits nothing, and the      *)
(* relay goes on with the next line.                                       *)
(***************************************************************************)
EmptyContentEmitsNothing ==
    [][(LineStep /\ HasNoContent(Head(complete_lines))) =>
         /\ emitted' = emitted
         /\ pc' = "loop"
         /\ error' = NoExc
         /\ complete_lines' = Tail(complete_lines)]_vars

\* the line with the null content was passed over and the sentinel line
\* after it was processed
WitnessEmptyContent ==
    /\ pc = "loop"
    /\ body = LineContentNull \o <<"\n">> \o LineDone \o <<"\n">>
    /\ pos = Len(body)
    /\ complete_lines = <<>>
    /\ emitted = <<DoneEvent>>

(***************************************************************************)
(* C8.  A chunk that does not decode as UTF-8 is skipped as a whole: the   *)
(* step that receives it emits nothing, leaves the buffer as it was and    *)
(* leaves the relay in its read loop.                                      *)
(***************************************************************************)
UndecodableChunkIsSkipped ==
    [][(pc = "loop" /\ complete_lines = <<>> /\ pos' > pos
          /\ ~Utf8Decode(SubSeq(body, pos + 1, pos')).ok) =>
         /\ buffer' = buffer
         /\ complete_lines' = <<>>
         /\ emitted' = emitted
         /\ pc' = "loop"
         /\ error' = NoExc]_vars

\* the last chunk ended between the two bytes of U+00E9 and was skipped; the
\* text of the chunks before it is still in the buffer
WitnessUndecodableChunk ==
    /\ pc = "loop"
    /\ 0 < pos /\ pos < Len(body)
    /\ body[pos] = "C3"
    /\ buffer # <<>>
    /\ Len(buffer) < pos

(***************************************************************************)
(* C9.  Processing a complete `data:` line whose payload is JSON without   *)
(* an object at choices[0].delta emits nothing and raises nothing: the     *)
(* relay goes on with the next line.                                       *)
(***************************************************************************)
ShapelessLineIsSkipped ==
    [][(LineStep /\ IsShapelessDataLine(Head(complete_lines))) =>
         /\ emitted' = emitted
         /\ pc' = "loop"
         /\ error' = NoExc
         /\ complete_lines' = Tail(complete_lines)]_vars

(***************************************************************************)
(* C10.  As claimed: a run that ended in a transport error has emitted     *)
(* nothing.                                                                *)
(***************************************************************************)
TransportErrorBeforeAnyEvent ==
    error \in TransportErrors => emitted = <<>>

(***************************************************************************)
(* C10, amended.  A run that ended in a connection or status error has     *)
(* emitted nothing; a step that raises, whatever the error, emits nothing, *)
(* and nothing is emitted after it.                                        *)
(***************************************************************************)
TransportErrorEmitsNothing ==
    /\ [](error \in {"ConnectError", "HTTPStatusError"} => emitted = <<>>)
    /\ [][error' # NoExc => emitted' = emitted]_vars

\* the read of the body failed after an event had been emitted
WitnessReadErrorAfterEvent ==
    /\ pc = "raised"
    /\ error = "ReadError"
    /\ emitted = <<EventX>>

(***************************************************************************)
(* Vocabulary of the properties of /chat: what an upstream answer says,    *)
(* read off its JSON independently of the handler's own extraction.        *)
(***************************************************************************)
\* a request that was not streamed has been answered
Answered == pc = "responded" /\ upstream # NoAnswer

\* the call met a network failure or a status outside 2xx
IsTransportFailure(u) ==
    \/ u.kind = "RequestError"
    \/ u.kind = "response" /\ u.status_code \notin 200..299

\* the body is JSON with message.content at the first of its choices
HasReplyText(val) ==
    /\ val.t = "obj"
    /\ HasKey(val, KeyChoices)
    /\ ValueAt(val, KeyChoices).t = "arr"
    /\ ValueAt(val, KeyChoices).v # <<>>
    /\ ValueAt(val, KeyChoices).v[1].t = "obj"
    /\ HasKey(ValueAt(val, KeyChoices).v[1], KeyOfMessage)
    /\ ValueAt(ValueAt(val, KeyChoices).v[1], KeyOfMessage).t = "obj"
    /\ HasKey(ValueAt(ValueAt(val, KeyChoices).v[1], KeyOfMessage),
              KeyContent)

ReplyTextOf(val) ==
    ValueAt(ValueAt(ValueAt(val, KeyChoices).v[1], KeyOfMessage), KeyContent)

\* the body is a JSON object with an `error` field
HasErrorField(u) ==
    /\ JsonLoads(u.text).ok
    /\ JsonLoads(u.text).val.t = "obj"
    /\ HasKey(JsonLoads(u.text).val, KeyOfError)

\* every way the upstream can fail a request that is not streamed
UpstreamFailed(u) ==
    \/ IsTransportFailure(u)
    \/ ~JsonLoads(u.text).ok
    \/ HasErrorField(u)
    \/ ~HasReplyText(JsonLoads(u.text).val)

Is500Class(r) == r.kind = "HTTPException" /\ r.status_code \in 500..599

(***************************************************************************)
(* C11.  Every transport error of /chat (a network failure or an upstream  *)
(* status outside 2xx, whatever the status) reaches the HTTP caller as a   *)
(* reply of the 500 class, for a request that is not streamed and for a    *)
(* streamed one.                                                           *)
(***************************************************************************)
TransportErrorIs500 ==
    /\ (Answered /\ IsTransportFailure(upstream)) => Is500Class(reply)
    /\ (message.use_streaming /\ pc = "raised" /\ error \in TransportErrors)
           => Is500Class(reply)

(***************************************************************************)
(* C12.  A request that is not streamed: every failure of the upstream     *)
(* (network error, status outside 2xx, a body that is not JSON, has an     *)
(* `error` field, has no or an empty `choices`, or lacks message.content   *)
(* at its first choice) is answered by an HTTPException whose status is    *)
(* not a success; {"response": text} is answered only to a 2xx whose body  *)
(* has message.content at its first choice, and text is that content.      *)
(***************************************************************************)
FailureGetsErrorReply ==
    Answered =>
        /\ reply.kind \in {"json", "HTTPException"}
        /\ UpstreamFailed(upstream) =>
               /\ reply.kind = "HTTPException"
               /\ reply.status_code \notin 200..299
        /\ reply.kind = "json" =>
               /\ upstream.kind = "response"
               /\ upstream.status_code \in 200..299
               /\ ~UpstreamFailed(upstream)
               /\ reply.val = ReplyTextOf(JsonLoads(upstream.text).val)

\* a 2xx answer whose body lacks the reply has been turned into an error,
\* and so has an answer outside 2xx whose body has the shape of a reply
WitnessFailureReply ==
    /\ Answered
    /\ reply.kind = "HTTPException"
    /\ \/ /\ upstream.status_code \in 200..299
          /\ upstream.text = BodyEmptyChoices
       \/ /\ upstream.status_code = 429
          /\ upstream.text = BodyReply

(***************************************************************************)
(* C19.  A request that is not streamed, answered 2xx by the upstream with *)
(* a JSON body that has an `error` object: the caller receives HTTP 400    *)
(* whose detail is error.message, or "Unknown error" when it is absent.    *)
(***************************************************************************)
ErrorFieldIs400 ==
    (/\ Answered
     /\ upstream.kind = "response"
     /\ upstream.status_code \in 200..299
     /\ HasErrorField(upstream)
     /\ ValueAt(JsonLoads(upstream.text).val, KeyOfError).t = "obj")
        => /\ reply.kind = "HTTPException"
           /\ reply.status_code = 400
           /\ reply.val =
                  DictGet(ValueAt(JsonLoads(upstream.text).val, KeyOfError),
                          KeyOfMessage, JStr(UnknownError))

(***************************************************************************)
(* C13.  Invocations that run side by side do not interfere: whatever the  *)
(* interleaving, the buffer and the emitted events of every invocation are *)
(* those of generate_streaming_response run alone on the chunks that this  *)
(* invocation has received.                                                *)
(***************************************************************************)
\* the buffer and the events of a lone run once it has handled the first k
\* of its chunks, each with all its lines; exc is the exception that ended it
RECURSIVE Alone(_, _)
Alone(chunks, k) ==
    IF k = 0 THEN [buffer |-> <<>>, emitted |-> <<>>, exc |-> NoExc]
    ELSE LET p == Alone(chunks, k - 1)
         IN  IF p.exc # NoExc THEN p
             ELSE LET c == ChunkOutcome(p.buffer, chunks[k])
                      run == RunLines(c.complete_lines)
                  IN  [buffer |-> c.buffer,
                       emitted |-> p.emitted \o run.events,
                       exc |-> IF Caught(run.exc) THEN NoExc ELSE run.exc]

\* r has handled its chunks as the lone run does, but for the lines of the
\* last chunk that it has still to process
InTheLoopAsAlone(r) ==
    /\ r.buffer = Alone(r.chunks, r.received).buffer
    /\ r.emitted \o RunLines(r.complete_lines).events
           = Alone(r.chunks, r.received).emitted

\* r has flushed its buffer as the lone run does
FlushedAsAlone(r) ==
    /\ r.received = Len(r.chunks)
    /\ r.complete_lines = <<>>
    /\ r.buffer = Alone(r.chunks, r.received).buffer
    /\ r.emitted = Alone(r.chunks, r.received).emitted
                       \o FlushOutcome(r.buffer).events

\* r has ended as the lone run does
DoneAsAlone(r) ==
    /\ r.received = Len(r.chunks)
    /\ r.complete_lines = <<>>
    /\ r.buffer = Alone(r.chunks, r.received).buffer
    /\ r.emitted = Alone(r.chunks, r.received).emitted
                       \o FlushOutcome(r.buffer).events
                       \o FinalOutcome(r.buffer).events

AsAlone(r) ==
    IF r.pc = "done" THEN DoneAsAlone(r)
    ELSE IF r.pc = "final" THEN FlushedAsAlone(r)
    ELSE IF r.pc = "closed" THEN InTheLoopAsAlone(r) \/ FlushedAsAlone(r)
    ELSE InTheLoopAsAlone(r)

ConcurrentRelaysRunAsAlone ==
    \A i \in DOMAIN relays : AsAlone(relays[i])

\* the first invocation holds a partial line in its buffer, between its two
\* chunks, while the second has emitted an event and waits for its own
\* second chunk
WitnessInterleavedRelays ==
    /\ DOMAIN relays = Invocations
    /\ relays[1].pc = "loop"
    /\ relays[1].received = 1
    /\ relays[1].buffer # <<>>
    /\ relays[1].emitted = <<>>
    /\ relays[2].pc = "loop"
    /\ relays[2].received = 1
    /\ Len(relays[2].chunks) = 2
    /\ relays[2].emitted # <<>>

(***************************************************************************)
(* C14.  The upstream connection is released on every exit path: an        *)
(* invocation that has ended (by exhausting the stream, by an exception,   *)
(* or by being closed by its consumer) does not hold its connection open;  *)
(* it holds it open as long as it runs.                                    *)
(***************************************************************************)
ConnectionReleasedOnExit ==
    /\ pc \in {"done", "raised", "closed"} => conn # "open"
    /\ pc \in {"loop", "final"} => conn = "open"

\* the consumer has closed the generator after an event, before the
\* upstream was read to its end
WitnessClosedAfterEvent ==
    /\ pc = "closed"
    /\ conn = "released"
    /\ emitted # <<>>
    /\ pos < Len(body)

(***************************************************************************)
(* C15.  The flush at the end of the stream equals the processing of a     *)
(* line: for an upstream that is one unterminated line L (a content line,  *)
(* `data: [DONE]`, `data:[DONE]` or a malformed `data:` line), a completed *)
(* run that emits what the delivery of L in one chunk emits, emits what    *)
(* the delivery of L followed by a newline emits.                          *)
(***************************************************************************)
FlushedLines == {LineContentX, LineDone, LineDoneNoSpace, LineMalformed}

FlushEqualsLineProcessing ==
    (/\ pc = "done"
     /\ body \in FlushedLines
     /\ emitted = OneChunkOutput(body).events)
        => emitted = OneChunkOutput(body \o <<"\n">>).events

(***************************************************************************)
(* C16.  No received text is lost from the line buffer.  In the form of    *)
(* one step: the handling of a chunk that decodes leaves, in the lines it  *)
(* extracts (each with its newline) followed by the new buffer, the old    *)
(* buffer followed by the text of the chunk, and a buffer without a        *)
(* newline.  The lines extracted so far and the buffer then always add up  *)
(* to the text of the chunks that decoded.                                 *)
(***************************************************************************)
NoTextLostFromBuffer ==
    [][(pc = "loop" /\ pos' > pos
            /\ Utf8Decode(SubSeq(body, pos + 1, pos')).ok)
        => /\ JoinLines(complete_lines', TRUE) \o buffer'
                 = buffer \o Utf8Decode(SubSeq(body, pos + 1, pos')).str
           /\ \A n \in 1..Len(buffer') : buffer'[n] # "\n"]_vars

(***************************************************************************)
(* C17.  The sentinel is terminal: once a `data: [DONE]` event has been    *)
(* emitted, no content event is emitted any more.                          *)
(***************************************************************************)
SentinelIsTerminal ==
    [][Sentinels(emitted) > 0
        => Fragments(emitted') = Fragments(emitted)]_vars

(***************************************************************************)
(* C18.  Order preservation: the content events emitted so far are the     *)
(* events of distinct lines of the upstream text received so far, in the   *)
(* order of these lines (so no line gives more than one event); no chunk   *)
(* is read while a line extracted from an earlier chunk waits to be        *)
(* processed; and the step that emits a content event emits that one       *)
(* event and reads nothing.                                                *)
(***************************************************************************)
\* the lines of the upstream text received so far
ReceivedLines == SplitLines(Utf8Decode(SubSeq(body, 1, pos)).str)

\* events are the content events of some of the lines, in their order
InLineOrder(events, lines) ==
    \E f \in [1..Len(events) -> 1..Len(lines)] :
        /\ \A i, j \in 1..Len(events) : i < j => f[i] < f[j]
        /\ \A i \in 1..Len(events) :
             /\ HasContentText(lines[f[i]])
             /\ EventCarries(events[i], ContentTextOf(lines[f[i]]))

EventsFollowLines ==
    Utf8Decode(SubSeq(body, 1, pos)).ok
        => InLineOrder(Fragments(emitted), ReceivedLines)

OrderPreserved ==
    /\ []EventsFollowLines
    /\ [][pos' > pos => complete_lines = <<>>]_vars
    /\ [][Fragments(emitted') # Fragments(emitted)
            => /\ pos' = pos
               /\ Len(Fragments(emitted')) = Len(Fragments(emitted)) + 1]_vars

\* two different fragments have been emitted
WitnessTwoFragments ==
    /\ Len(Fragments(emitted)) = 2
    /\ Fragments(emitted)[1] # Fragments(emitted)[2]
    /\ EventsFollowLines
=============================================================================
